---- MODULE Spec2Model ----
(***************************************************************************)
(* anthropair: the approval-gated task queue (Task Store, Approval Gate,   *)
(* Broadcast Channel, Client State Cache), the client task-queue panel and *)
(* the settings route.                                                     *)
(*                                                                         *)
(* Strings are sequences of one-character strings; a setting key is one    *)
(* symbol of such a sequence.                                              *)
(***************************************************************************)
EXTENDS Integers, Sequences, FiniteSets, TLC

\* ------------------------------------------------------------------ bounds
MaxTasks == 2      \* task ids of the Task Store and of the panel's events
MaxInbox == 1      \* events queued on one client's connection
MaxReqs == 1       \* requests one client has in flight
MaxLen == 5        \* characters of the longest secret stored or posted
MaxLines == 5      \* lines of a .env file that still accepts a POST
MaxJoins == 2      \* calls of joinRoom
MaxChat == 2       \* room:chat messages the screen-share panel takes in
MaxClicks == 2     \* calls of openSettings, and requests the settings form sends

Clients == {"A", "B"}
Null == "null"
Statuses == {"pending", "approved", "rejected", "done"}
NoTask == [id |-> 0, status |-> "none", resolvedBy |-> Null]
NoSnapshot == [tasks |-> <<NoTask>>, roomMessages |-> <<>>]

VARIABLES
  store,         \* Task Store: sequence of Task records in creation order
  roomLog,       \* Task Store: ordered log of Room Messages
  connected,     \* Broadcast Channel: the registered clients
  reqs,          \* client -> requests sent over the channel, not yet handled
  inbox,         \* client -> events pushed by the server, not yet received
  tasks,         \* client -> state key 'tasks' (the Client State Cache)
  roomMessages,  \* client -> state key 'roomMessages'
  snapshotOf,    \* client -> the store state its connect was answered from, while
                 \* its cache holds nothing newer
  lostRace,      \* task ids for which another client's different decision has just
                 \* come late (until the server's next step)
  result,        \* what the last direct Task Store call returned
  panelTasks,    \* state key 'tasks' of a panel fed arbitrary 'task:update' events
  firstSeen,     \* the ids that panel received, in order of first receipt
  lastFor,       \* id -> the task of the last event that panel received for it
  lastMsg,       \* the last event that panel received
  once,          \* that panel's 'tasks' after the first receipt of lastMsg
  twice,         \* lastMsg has been received a second time in a row
  wasNew,        \* lastMsg's id was not in the panel's 'tasks' at its first receipt
  envFile,       \* contents of the .env file at ENV_PATH, or NoFile
  procEnv,       \* process.env of the server: key -> string or Undefined
  response,      \* the last response of the /api/settings route
  posted,        \* req.body of the last POST served: its entries in order
  room,          \* screen-share.js 'room': index into rooms, 0 for null
  localIdentity, \* screen-share.js 'localIdentity'
  livekitRoom,   \* client state 'livekitRoom'
  rooms,         \* the Room objects created so far, with their connection state
  calls,         \* the calls of joinRoom: where each stands
  chatLog,       \* client state 'roomMessages' as the screen-share panel appends to it
  injected,      \* the calls of injectCognateMessage
  modals,        \* the calls of openSettings: where each stands, its overlay's form
  requests       \* the bodies the settings form has sent to POST /api/settings

queueVars == <<store, roomLog, connected, reqs, inbox, tasks, roomMessages,
               snapshotOf, lostRace>>
storeVars == <<result>>
panelVars == <<panelTasks, firstSeen, lastFor, lastMsg, once, twice, wasNew>>

settingsVars == <<envFile, procEnv, response, posted>>

roomVars == <<room, localIdentity, livekitRoom, rooms, calls, chatLog, injected>>

modalVars == <<modals, requests>>

vars == <<queueVars, storeVars, panelVars, settingsVars, roomVars, modalVars>>

\* ------------------------------------------------------------- Task Store
Task(id, status, by) == [id |-> id, status |-> status, resolvedBy |-> by]

NoResult == [op |-> "none", id |-> 0, tag |-> "none", task |-> NoTask, before |-> NoTask]

createTask(st) == Append(st, Task(Len(st) + 1, "pending", Null))

resolveTaskLastWins(st, id, decision, clientId) ==
  IF id \notin DOMAIN st
  THEN [store |-> st, tag |-> "NotFound", task |-> NoTask]
  ELSE LET t == [st[id] EXCEPT !.status = decision, !.resolvedBy = clientId]
       IN [store |-> [st EXCEPT ![id] = t], tag |-> "ok", task |-> t]

resolveTask(st, id, decision, clientId) ==
  IF id \notin DOMAIN st
  THEN [store |-> st, tag |-> "NotFound", task |-> NoTask]
  ELSE IF st[id].status # "pending"
  THEN [store |-> st, tag |-> "AlreadyResolved", task |-> st[id]]
  ELSE LET t == [st[id] EXCEPT !.status = decision, !.resolvedBy = clientId]
       IN [store |-> [st EXCEPT ![id] = t], tag |-> "ok", task |-> t]

markDoneFromAnyStatus(st, id) ==
  IF id \notin DOMAIN st
  THEN [store |-> st, tag |-> "NotFound", task |-> NoTask]
  ELSE LET t == [st[id] EXCEPT !.status = "done"]
       IN [store |-> [st EXCEPT ![id] = t], tag |-> "ok", task |-> t]

markDone(st, id) ==
  IF id \notin DOMAIN st
  THEN [store |-> st, tag |-> "NotFound", task |-> NoTask]
  ELSE IF st[id].status # "approved"
  THEN [store |-> st, tag |-> "InvalidTransition", task |-> st[id]]
  ELSE LET t == [st[id] EXCEPT !.status = "done"]
       IN [store |-> [st EXCEPT ![id] = t], tag |-> "ok", task |-> t]

listTasks(st) == st

listRoomMessages(log) == log

\* -------------------------------------------------------- Broadcast Channel
HasRoom == \A c \in connected : Len(inbox[c]) < MaxInbox

publish(inb, conn, event) ==
  [c \in Clients |-> IF c \in conn THEN Append(inb[c], event) ELSE inb[c]]

TaskUpdate(task) == [type |-> "task:update", task |-> task]

\* ------------------------------------------------------ Client State Cache
find(list, id) ==
  IF \E i \in DOMAIN list : list[i].id = id
  THEN list[CHOOSE i \in DOMAIN list :
              /\ list[i].id = id
              /\ \A j \in DOMAIN list : list[j].id = id => i <= j]
  ELSE NoTask

updateInArray(list, id, item) ==
  [i \in DOMAIN list |-> IF list[i].id = id THEN item ELSE list[i]]

appendState(list, item) == Append(list, item)

handleTaskUpdateDropsKnown(list, msg) ==
  IF find(list, msg.task.id) # NoTask THEN list ELSE appendState(list, msg.task)

handleTaskUpdateAlwaysAppends(list, msg) == appendState(list, msg.task)

handleTaskUpdate(list, msg) ==
  LET existing == find(list, msg.task.id)
  IN IF existing # NoTask
     THEN updateInArray(list, msg.task.id, msg.task)
     ELSE appendState(list, msg.task)

applySnapshotSeedsOnly(list, snap) == IF list = <<>> THEN snap ELSE list

applySnapshot(list, snap) == snap

\* ------------------------------------------------------------- strings
Whitespace == {" ", "\n"}

RECURSIVE trimStart(_)
trimStart(s) ==
  IF s # <<>> /\ Head(s) \in Whitespace THEN trimStart(Tail(s)) ELSE s

RECURSIVE trimEnd(_)
trimEnd(s) ==
  IF s # <<>> /\ s[Len(s)] \in Whitespace
  THEN trimEnd(SubSeq(s, 1, Len(s) - 1)) ELSE s

trim(s) == trimEnd(trimStart(s))

\* s.indexOf(ch), counted from 1; 0 when ch does not occur (-1 in the source)
indexOf(s, ch) ==
  IF \E i \in DOMAIN s : s[i] = ch
  THEN CHOOSE i \in DOMAIN s : s[i] = ch /\ \A j \in 1..(i - 1) : s[j] # ch
  ELSE 0

RECURSIVE split(_)
split(s) ==
  LET i == indexOf(s, "\n")
  IN IF i = 0 THEN <<s>>
     ELSE <<SubSeq(s, 1, i - 1)>> \o split(SubSeq(s, i + 1, Len(s)))

RECURSIVE join(_)
join(lines) ==
  IF lines = <<>> THEN <<>>
  ELSE IF Len(lines) = 1 THEN lines[1]
  ELSE lines[1] \o <<"\n">> \o join(Tail(lines))

startsWith(s, ch) == s # <<>> /\ s[1] = ch

\* s.slice(-n)
sliceLast(s, n) == IF Len(s) <= n THEN s ELSE SubSeq(s, Len(s) - n + 1, Len(s))

RECURSIVE stripNewlines(_)
stripNewlines(s) ==
  IF s # <<>> /\ s[Len(s)] = "\n" THEN stripNewlines(SubSeq(s, 1, Len(s) - 1)) ELSE s

\* s.replace(/\n*$/, '\n')
endWithNewline(s) == stripNewlines(s) \o <<"\n">>

\* ------------------------------------------------------- settings route
Undefined == <<"undefined">>
NotAString == <<"not-a-string">>
NoFile == <<"ENOENT">>
Stars == <<"*", "*", "*", "*">>

SETTINGS_SCHEMA ==
  << [key |-> "ANTHROPIC_API_KEY", type |-> "secret", restart |-> FALSE],
     [key |-> "CLAUDE_MODEL", type |-> "select", restart |-> FALSE],
     [key |-> "LIVEKIT_API_KEY", type |-> "secret", restart |-> FALSE],
     [key |-> "LIVEKIT_API_SECRET", type |-> "secret", restart |-> FALSE],
     [key |-> "LIVEKIT_WS_URL", type |-> "text", restart |-> FALSE],
     [key |-> "PORT", type |-> "text", restart |-> TRUE] >>

ALLOWED_KEYS == { SETTINGS_SCHEMA[i].key : i \in DOMAIN SETTINGS_SCHEMA }

EnvKeys == ALLOWED_KEYS \cup {"UNKNOWN_KEY"}

Falsy(v) == v = Undefined \/ v = <<>>

maskSecret(value) ==
  IF Falsy(value) \/ Len(value) < 4
  THEN (IF Falsy(value) THEN <<>> ELSE Stars)
  ELSE Stars \o sliceLast(value, 4)

readEnvFile(file) == IF file = NoFile THEN <<>> ELSE file

RECURSIVE parseLines(_, _)
parseLines(lines, values) ==
  IF lines = <<>> THEN values
  ELSE LET trimmed == trim(Head(lines))
           eqIdx == indexOf(trimmed, "=")
       IN IF trimmed = <<>> \/ startsWith(trimmed, "#") \/ eqIdx = 0
          THEN parseLines(Tail(lines), values)
          ELSE LET key == trim(SubSeq(trimmed, 1, eqIdx - 1))
                   val == trim(SubSeq(trimmed, eqIdx + 1, Len(trimmed)))
               IN parseLines(Tail(lines), (key :> val) @@ values)

parseEnvValues(content) == parseLines(split(content), [k \in {} |-> <<>>])

\* values[key], process.env[key]: undefined when absent
lookup(values, key) == IF key \in DOMAIN values THEN values[key] ELSE Undefined

\* `updates` is the object `filtered`: its entries in insertion order
hasKey(updates, key) == \E i \in DOMAIN updates : <<updates[i].key>> = key

entryOf(updates, key) ==
  updates[CHOOSE i \in DOMAIN updates : <<updates[i].key>> = key].value

lineKey(line) ==
  LET trimmed == trim(line)
  IN trim(SubSeq(trimmed, 1, indexOf(trimmed, "=") - 1))

rewrites(line, updates) ==
  LET trimmed == trim(line)
  IN /\ trimmed # <<>>
     /\ ~startsWith(trimmed, "#")
     /\ indexOf(trimmed, "=") # 0
     /\ hasKey(updates, lineKey(line))

updateEnvFileAppendsOnly(file, updates) ==
  LET lines == split(readEnvFile(file))
      appended == [i \in DOMAIN updates |->
                     <<updates[i].key>> \o <<"=">> \o updates[i].value]
  IN endWithNewline(join(lines \o appended))

updateEnvFile(file, updates) ==
  LET lines == split(readEnvFile(file))
      updated == [i \in DOMAIN lines |->
                    IF rewrites(lines[i], updates)
                    THEN lineKey(lines[i]) \o <<"=">> \o entryOf(updates, lineKey(lines[i]))
                    ELSE lines[i]]
      written == { lineKey(lines[i]) : i \in { j \in DOMAIN lines : rewrites(lines[j], updates) } }
      fresh == SelectSeq(updates, LAMBDA e : <<e.key>> \notin written)
      appended == [i \in DOMAIN fresh |-> <<fresh[i].key>> \o <<"=">> \o fresh[i].value]
  IN endWithNewline(join(updated \o appended))

fieldOf(key) ==
  SETTINGS_SCHEMA[CHOOSE i \in DOMAIN SETTINGS_SCHEMA : SETTINGS_SCHEMA[i].key = key]

\* router.get('/'): the settings array, one entry per schema field
getSettings(file, env) ==
  LET values == parseEnvValues(readEnvFile(file))
  IN [i \in DOMAIN SETTINGS_SCHEMA |->
       LET field == SETTINGS_SCHEMA[i]
           inFile == lookup(values, <<field.key>>)
       IN [key |-> field.key, type |-> field.type, restart |-> field.restart,
           value |-> IF field.type = "secret"
                     THEN maskSecret(IF ~Falsy(inFile) THEN inFile
                                     ELSE IF ~Falsy(env[field.key]) THEN env[field.key]
                                     ELSE <<>>)
                     ELSE IF inFile # Undefined THEN inFile
                     ELSE IF env[field.key] # Undefined THEN env[field.key]
                     ELSE <<>>]]

filterUpdatesKeepsNonStrings(entries) ==
  SelectSeq(entries, LAMBDA e : e.key \in ALLOWED_KEYS)

\* router.post('/'): the entries of req.body that are written
filterUpdates(entries) ==
  SelectSeq(entries, LAMBDA e : e.key \in ALLOWED_KEYS /\ e.value # NotAString)

NoResponse == [kind |-> "none", status |-> 0, settings |-> <<>>, restartNeeded |-> FALSE]

\* ------------------------------------------------ inputs of the settings route
Sample == <<"s", "k", "-", "1", "2", "3", "4">>

\* no secret typed, and secrets around the 4 characters maskSecret shows
SecretValues == {<<>>} \cup { SubSeq(Sample, 1, n) : n \in (MaxLen - 2)..MaxLen }

TextValues == { <<>>, <<"3">>, <<" ", "3">>, <<"3", "\n", "UNKNOWN_KEY", "=", "x">> }

BodyKeys == {"ANTHROPIC_API_KEY", "PORT", "UNKNOWN_KEY"}

BodyValues(key) ==
  IF key = "ANTHROPIC_API_KEY" THEN SecretValues \cup {NotAString}
  ELSE IF key = "PORT" THEN TextValues \cup {NotAString}
  ELSE {<<"x">>}

Entries == UNION { { [key |-> k, value |-> v] : v \in BodyValues(k) } : k \in BodyKeys }

\* the key that follows `key` in the bodies of two entries
After(key) ==
  IF key = "ANTHROPIC_API_KEY" THEN "PORT"
  ELSE IF key = "PORT" THEN "UNKNOWN_KEY"
  ELSE "ANTHROPIC_API_KEY"

Bodies ==
  {<<>>} \cup { <<e>> : e \in Entries }
         \cup { <<e[1], e[2]>> :
                  e \in { p \in Entries \X Entries : p[2].key = After(p[1].key) } }

InitialFiles ==
  { NoFile,
    <<"#", " ", "k", "\n", "ANTHROPIC_API_KEY", "=", "s", "k", "-", "1", "\n">>,
    <<"PORT", " ", "=", " ", "3", "\n", "\n", "UNKNOWN_KEY", "=", "x", "\n", "\n">>,
    <<"j", "\n", "PORT", "=", "3", "\n", "PORT", "=", "4">> }

InitialEnvs ==
  { [k \in EnvKeys |-> Undefined],
    [k \in EnvKeys |-> IF k = "ANTHROPIC_API_KEY" THEN <<"s", "k", "-", "1", "2">>
                       ELSE IF k = "UNKNOWN_KEY" THEN <<"x">>
                       ELSE Undefined] }

SettingsIdle ==
  /\ envFile = NoFile
  /\ procEnv = [k \in EnvKeys |-> Undefined]
  /\ response = NoResponse
  /\ posted = <<>>

\* ------------------------------------------------- screen-share panel
NullIdentity == <<"null">>
Identity(n) == <<"user", n>>
Marker == <<"c", "o", "g", "n", "a", "t", "e", ":">>

includesText(text, prefix) ==
  \E i \in 1..(Len(text) - Len(prefix) + 1) :
    SubSeq(text, i, i + Len(prefix) - 1) = prefix

\* text.startsWith(prefix)
startsWithText(text, prefix) ==
  Len(text) >= Len(prefix) /\ SubSeq(text, 1, Len(prefix)) = prefix

\* text.slice(n)
sliceFrom(text, n) == SubSeq(text, n + 1, Len(text))

\* msg.sender || participant?.identity || 'unknown'
senderOf(msg, participant) ==
  IF ~Falsy(msg.sender) THEN msg.sender
  ELSE IF ~Falsy(participant) THEN participant
  ELSE <<"unknown">>

RoomIdle ==
  /\ room = 0
  /\ localIdentity = NullIdentity
  /\ livekitRoom = Null
  /\ rooms = <<>>
  /\ calls = <<>>
  /\ chatLog = <<>>
  /\ injected = <<>>

\* ------------------------------------------------- settings modal
\* the form's fields: one of each type of the schema
FormKeys == <<"ANTHROPIC_API_KEY", "CLAUDE_MODEL", "PORT">>

\* field.options of CLAUDE_MODEL, in order: the default '' and one model
Options == << <<>>, <<"claude-opus-4-6">> >>

NoForm == [k \in {} |-> <<>>]

ModalIdle ==
  /\ modals = <<>>
  /\ requests = <<>>

\* the value each input holds when the overlay is rendered
rendered(settings) ==
  [k \in DOMAIN settings |->
     IF fieldOf(k).type = "secret" THEN <<>>
     ELSE IF fieldOf(k).type = "select"
          THEN (IF \E i \in DOMAIN Options : Options[i] = settings[k]
                THEN settings[k] ELSE Options[1])
     ELSE settings[k]]

\* the submit handler's loop: the entries of `updates`, in the form's order
sends(settings, inputs, key) ==
  LET type == fieldOf(key).type
      val == trim(inputs[key])
      original == IF Falsy(settings[key]) THEN <<>> ELSE settings[key]
  IN /\ ~(type = "secret" /\ Falsy(val))
     /\ ~((type = "text" \/ type = "select") /\ val = original)

collectUpdatesSendsAll(settings, inputs) ==
  [i \in DOMAIN FormKeys |-> [key |-> FormKeys[i], value |-> trim(inputs[FormKeys[i]])]]

collectUpdates(settings, inputs) ==
  LET all == [i \in DOMAIN FormKeys |->
                [key |-> FormKeys[i], value |-> trim(inputs[FormKeys[i]])]]
  IN SelectSeq(all, LAMBDA e : sends(settings, inputs, e.key))

\* ------------------------------------------------------------------- Init
NoMsg == [type |-> "none", task |-> NoTask]

QueueIdle ==
  /\ store = <<>>
  /\ roomLog = <<>>
  /\ connected = {}
  /\ reqs = [c \in Clients |-> <<>>]
  /\ inbox = [c \in Clients |-> <<>>]
  /\ tasks = [c \in Clients |-> <<>>]
  /\ roomMessages = [c \in Clients |-> <<>>]
  /\ snapshotOf = [c \in Clients |-> NoSnapshot]
  /\ lostRace = {}

StoreIdle == result = NoResult

PanelIdle ==
  /\ panelTasks = <<>>
  /\ firstSeen = <<>>
  /\ lastFor = [id \in 1..MaxTasks |-> NoTask]
  /\ lastMsg = NoMsg
  /\ once = <<>>
  /\ twice = FALSE
  /\ wasNew = FALSE

Init == QueueIdle /\ StoreIdle /\ PanelIdle /\ SettingsIdle /\ RoomIdle /\ ModalIdle

\* ------------------------------------------------- actions of the queue
notQueue == <<storeVars, panelVars, settingsVars, roomVars, modalVars>>

\* Agent Bridge: requestApproval creates a pending task; the mutation fans out.
\* The queue is followed for one task and one room message: every operation reads
\* and writes one record by id (several ids: StoreSpec and PanelSpec).
CreateTask ==
  /\ store = <<>>
  /\ HasRoom
  /\ store' = createTask(store)
  /\ inbox' = publish(inbox, connected, TaskUpdate(store'[Len(store')]))
  /\ UNCHANGED <<roomLog, connected, reqs, tasks, roomMessages, snapshotOf>>
  /\ lostRace' = {}
  /\ UNCHANGED notQueue

\* Agent Bridge: markDone after running the action; only a change fans out.
MarkDone(id) ==
  /\ HasRoom
  /\ LET r == markDone(store, id)
     IN /\ store' = r.store
        /\ inbox' = IF r.tag = "ok"
                    THEN publish(inbox, connected, TaskUpdate(r.task))
                    ELSE inbox
  /\ UNCHANGED <<roomLog, connected, reqs, tasks, roomMessages, snapshotOf>>
  /\ lostRace' = {}
  /\ UNCHANGED notQueue

AppendRoomMessage ==
  /\ roomLog = <<>>
  /\ HasRoom
  /\ LET m == [sender |-> "peer", text |-> "hi", ts |-> Len(roomLog) + 1]
     IN /\ roomLog' = Append(roomLog, m)
        /\ inbox' = publish(inbox, connected, [type |-> "room:message", msg |-> m])
  /\ UNCHANGED <<store, connected, reqs, tasks, roomMessages, snapshotOf>>
  /\ lostRace' = {}
  /\ UNCHANGED notQueue

\* A click on a rendered task card: send() only.
ClickApproveOptimistic(c, id) ==
  /\ c \in connected
  /\ find(tasks[c], id) # NoTask
  /\ Len(reqs[c]) < MaxReqs
  /\ reqs' = [reqs EXCEPT ![c] = Append(@, [type |-> "task:approve", taskId |-> id])]
  /\ tasks' = [tasks EXCEPT ![c] =
                 updateInArray(@, id, [find(@, id) EXCEPT !.status = "approved"])]
  /\ UNCHANGED <<store, roomLog, connected, inbox, roomMessages, snapshotOf>>
  /\ lostRace' = {}
  /\ UNCHANGED notQueue

ClickApprove(c, id) ==
  /\ c \in connected
  /\ find(tasks[c], id) # NoTask
  /\ Len(reqs[c]) < MaxReqs
  /\ reqs' = [reqs EXCEPT ![c] = Append(@, [type |-> "task:approve", taskId |-> id])]
  /\ UNCHANGED <<store, roomLog, connected, inbox, tasks, roomMessages, snapshotOf>>
  /\ lostRace' = {}
  /\ UNCHANGED notQueue

ClickReject(c, id) ==
  /\ c \in connected
  /\ find(tasks[c], id) # NoTask
  /\ Len(reqs[c]) < MaxReqs
  /\ reqs' = [reqs EXCEPT ![c] = Append(@, [type |-> "task:reject", taskId |-> id])]
  /\ UNCHANGED <<store, roomLog, connected, inbox, tasks, roomMessages, snapshotOf>>
  /\ lostRace' = {}
  /\ UNCHANGED notQueue

\* Approval Gate: one inbound decision message of client c.
Decision(type) ==
  IF type = "task:approve" THEN "approved"
  ELSE IF type = "task:reject" THEN "rejected" ELSE "invalid"

ApprovalGate(c) ==
  /\ reqs[c] # <<>>
  /\ HasRoom
  /\ LET m == Head(reqs[c])
         r == resolveTask(store, m.taskId, Decision(m.type), c)
     IN /\ Decision(m.type) \in {"approved", "rejected"}
        /\ store' = r.store
        /\ inbox' = IF r.tag \in {"ok", "AlreadyResolved"}
                    THEN publish(inbox, connected, TaskUpdate(r.task))
                    ELSE inbox
        /\ lostRace' = IF /\ r.tag = "AlreadyResolved"
                          /\ r.task.resolvedBy # c
                          /\ r.task.status # Decision(m.type)
                          /\ r.task.status # "done"
                       THEN {m.taskId}
                       ELSE {}
  /\ reqs' = [reqs EXCEPT ![c] = Tail(@)]
  /\ UNCHANGED <<roomLog, connected, tasks, roomMessages, snapshotOf>>
  /\ UNCHANGED notQueue

\* Broadcast Channel: onConnect registers and sends the full snapshot.
Snapshot(st, log) ==
  [type |-> "snapshot", tasks |-> listTasks(st), roomMessages |-> listRoomMessages(log)]

OnConnect(c) ==
  /\ c \notin connected
  /\ connected' = connected \cup {c}
  /\ inbox' = [inbox EXCEPT ![c] = <<Snapshot(store, roomLog)>>]
  /\ snapshotOf' = [snapshotOf EXCEPT ![c] = [tasks |-> store, roomMessages |-> roomLog]]
  /\ UNCHANGED <<store, roomLog, reqs, tasks, roomMessages>>
  /\ lostRace' = {}
  /\ UNCHANGED notQueue

\* onDisconnect: undelivered events are lost; a request on the wire may be too.
OnDisconnect(c) ==
  /\ c \in connected
  /\ connected' = connected \ {c}
  /\ inbox' = [inbox EXCEPT ![c] = <<>>]
  /\ \E keep \in BOOLEAN : reqs' = [reqs EXCEPT ![c] = IF keep THEN @ ELSE <<>>]
  /\ snapshotOf' = [snapshotOf EXCEPT ![c] = NoSnapshot]
  /\ UNCHANGED <<store, roomLog, tasks, roomMessages>>
  /\ lostRace' = {}
  /\ UNCHANGED notQueue

\* The client receives the next event of its connection.
ReceiveTaskUpdate(c) ==
  /\ inbox[c] # <<>>
  /\ Head(inbox[c]).type = "task:update"
  /\ tasks' = [tasks EXCEPT ![c] = handleTaskUpdate(@, Head(inbox[c]))]
  /\ inbox' = [inbox EXCEPT ![c] = Tail(@)]
  /\ snapshotOf' = [snapshotOf EXCEPT ![c] = NoSnapshot]
  /\ UNCHANGED <<store, roomLog, connected, reqs, roomMessages, lostRace>>
  /\ UNCHANGED notQueue

ReceiveSnapshot(c) ==
  /\ inbox[c] # <<>>
  /\ Head(inbox[c]).type = "snapshot"
  /\ tasks' = [tasks EXCEPT ![c] = applySnapshot(@, Head(inbox[c]).tasks)]
  /\ roomMessages' = [roomMessages EXCEPT ![c] =
                        applySnapshot(@, Head(inbox[c]).roomMessages)]
  /\ inbox' = [inbox EXCEPT ![c] = Tail(@)]
  /\ UNCHANGED <<store, roomLog, connected, reqs, snapshotOf, lostRace>>
  /\ UNCHANGED notQueue

ReceiveRoomMessage(c) ==
  /\ inbox[c] # <<>>
  /\ Head(inbox[c]).type = "room:message"
  /\ roomMessages' = [roomMessages EXCEPT ![c] = appendState(@, Head(inbox[c]).msg)]
  /\ inbox' = [inbox EXCEPT ![c] = Tail(@)]
  /\ snapshotOf' = [snapshotOf EXCEPT ![c] = NoSnapshot]
  /\ UNCHANGED <<store, roomLog, connected, reqs, tasks, lostRace>>
  /\ UNCHANGED notQueue

Receive(c) == ReceiveTaskUpdate(c) \/ ReceiveSnapshot(c) \/ ReceiveRoomMessage(c)

Next ==
  \/ CreateTask
  \/ \E id \in DOMAIN store : MarkDone(id)
  \/ AppendRoomMessage
  \/ \E c \in Clients, id \in DOMAIN store : ClickApprove(c, id)
  \/ \E c \in Clients, id \in DOMAIN store : ClickReject(c, id)
  \/ \E c \in Clients : ApprovalGate(c)
  \/ \E c \in Clients : OnConnect(c)
  \/ \E c \in Clients : OnDisconnect(c)
  \/ \E c \in Clients : ReceiveTaskUpdate(c)
  \/ \E c \in Clients : ReceiveSnapshot(c)
  \/ \E c \in Clients : ReceiveRoomMessage(c)

Spec == Init /\ [][Next]_vars

\* The client's socket delivers every event the server has pushed.
FairSpec == Spec /\ \A c \in Clients : WF_vars(Receive(c))

\* ------------------------------------- the Task Store called directly
notStore == <<roomLog, connected, reqs, inbox, tasks, roomMessages, snapshotOf,
              lostRace, panelVars, settingsVars, roomVars, modalVars>>

StoreCreate ==
  /\ Len(store) < MaxTasks
  /\ store' = createTask(store)
  /\ result' = [op |-> "createTask", id |-> Len(store'), tag |-> "ok",
                task |-> store'[Len(store')], before |-> NoTask]
  /\ UNCHANGED notStore

StoreResolve(id, decision, clientId) ==
  /\ LET r == resolveTask(store, id, decision, clientId)
     IN /\ store' = r.store
        /\ result' = [op |-> "resolveTask", id |-> id, tag |-> r.tag,
                      task |-> r.task, before |-> find(store, id)]
  /\ UNCHANGED notStore

StoreMarkDone(id) ==
  /\ LET r == markDone(store, id)
     IN /\ store' = r.store
        /\ result' = [op |-> "markDone", id |-> id, tag |-> r.tag,
                      task |-> r.task, before |-> find(store, id)]
  /\ UNCHANGED notStore

StoreNext ==
  \/ StoreCreate
  \/ \E id \in 1..MaxTasks, d \in {"approved", "rejected"}, c \in Clients :
       StoreResolve(id, d, c)
  \/ \E id \in 1..MaxTasks : StoreMarkDone(id)

StoreSpec == Init /\ [][StoreNext]_vars

\* --------------------------- the panel fed arbitrary 'task:update' events
notPanel == <<queueVars, storeVars, settingsVars, roomVars, modalVars>>

Events ==
  { TaskUpdate(Task(id, s, by)) :
      id \in 1..MaxTasks, s \in Statuses, by \in {Null, "A"} }

PanelReceive(msg) ==
  /\ panelTasks' = handleTaskUpdate(panelTasks, msg)
  /\ firstSeen' = IF \E i \in DOMAIN firstSeen : firstSeen[i] = msg.task.id
                  THEN firstSeen ELSE Append(firstSeen, msg.task.id)
  /\ lastFor' = [lastFor EXCEPT ![msg.task.id] = msg.task]
  /\ lastMsg' = msg
  /\ once' = panelTasks'
  /\ twice' = FALSE
  /\ wasNew' = (find(panelTasks, msg.task.id) = NoTask)
  /\ UNCHANGED notPanel

PanelReceiveAgain ==
  /\ lastMsg # NoMsg
  /\ ~twice
  /\ panelTasks' = handleTaskUpdate(panelTasks, lastMsg)
  /\ twice' = TRUE
  /\ UNCHANGED <<firstSeen, lastFor, lastMsg, once, wasNew>>
  /\ UNCHANGED notPanel

PanelNext ==
  \/ \E msg \in Events : PanelReceive(msg)
  \/ PanelReceiveAgain

PanelSpec == Init /\ [][PanelNext]_vars

\* ------------------------------------------------ the settings route
notSettings == <<queueVars, storeVars, panelVars, roomVars, modalVars>>

SettingsInit ==
  /\ QueueIdle /\ StoreIdle /\ PanelIdle /\ RoomIdle /\ ModalIdle
  /\ envFile \in InitialFiles
  /\ procEnv \in InitialEnvs
  /\ response = NoResponse
  /\ posted = <<>>

Get ==
  /\ response' = [kind |-> "get", status |-> 200,
                  settings |-> getSettings(envFile, procEnv), restartNeeded |-> FALSE]
  /\ UNCHANGED <<envFile, procEnv, posted>>
  /\ UNCHANGED notSettings

\* body: the entries of the JSON object posted, in order
Post(body) ==
  /\ Len(split(readEnvFile(envFile))) <= MaxLines
  /\ LET filtered == filterUpdates(body)
     IN /\ procEnv' = [k \in EnvKeys |->
                         IF hasKey(filtered, <<k>>) THEN entryOf(filtered, <<k>>)
                         ELSE procEnv[k]]
        /\ envFile' = IF Len(filtered) > 0 THEN updateEnvFile(envFile, filtered)
                      ELSE envFile
        /\ posted' = body
        /\ response' = [kind |-> "post", status |-> 200, settings |-> <<>>,
                        restartNeeded |->
                          \E i \in DOMAIN filtered : fieldOf(filtered[i].key).restart]
  /\ UNCHANGED notSettings

\* a body that is no object: 400
PostNotObject ==
  /\ response' = [kind |-> "error", status |-> 400, settings |-> <<>>,
                  restartNeeded |-> FALSE]
  /\ UNCHANGED <<envFile, procEnv, posted>>
  /\ UNCHANGED notSettings

SettingsNext ==
  \/ Get
  \/ \E body \in Bodies : Post(body)
  \/ PostNotObject

SettingsSpec == SettingsInit /\ [][SettingsNext]_vars

\* ------------------------------------------------ the screen-share panel
notRoom == <<queueVars, storeVars, panelVars, settingsVars, modalVars>>

RoomNames == {"r1"}

NoCall == [pc |-> "done", roomName |-> "", identity |-> NullIdentity, room |-> 0]

setCall(j, pc, r) == [calls EXCEPT ![j].pc = pc, ![j].room = r]

\* click on join-room-btn: joinRoom up to its first await (the token fetch)
JoinClick(roomName) ==
  /\ Len(calls) < MaxJoins
  /\ IF roomName = ""
     THEN UNCHANGED <<localIdentity, calls>>
     ELSE /\ localIdentity' = Identity(Len(calls) + 1)
          /\ calls' = Append(calls, [pc |-> "token", roomName |-> roomName,
                                      identity |-> Identity(Len(calls) + 1), room |-> 0])
  /\ UNCHANGED <<room, livekitRoom, rooms, chatLog, injected>>
  /\ UNCHANGED notRoom

\* the token fetch settles: a token, a body with data.error, or a rejection
TokenReply(j, outcome) ==
  /\ calls[j].pc = "token"
  /\ calls' = setCall(j, IF outcome = "token" THEN "import" ELSE "done", 0)
  /\ UNCHANGED <<room, localIdentity, livekitRoom, rooms, chatLog, injected>>
  /\ UNCHANGED notRoom

\* import('livekit-client') settles: room = new Room(), handlers registered,
\* room.connect started
ImportDone(j) ==
  /\ calls[j].pc = "import"
  /\ rooms' = Append(rooms, [state |-> "connecting", identity |-> calls[j].identity])
  /\ room' = Len(rooms) + 1
  /\ calls' = setCall(j, "connect", Len(rooms) + 1)
  /\ UNCHANGED <<localIdentity, livekitRoom, chatLog, injected>>
  /\ UNCHANGED notRoom

\* room.connect settles: resolved (setState('livekitRoom', roomName)) or
\* rejected (the catch block)
ConnectDone(j, ok) ==
  /\ calls[j].pc = "connect"
  /\ rooms' = [rooms EXCEPT ![calls[j].room].state =
                 IF ok THEN "connected" ELSE "failed"]
  /\ livekitRoom' = IF ok THEN calls[j].roomName ELSE livekitRoom
  /\ calls' = setCall(j, "done", calls[j].room)
  /\ UNCHANGED <<room, localIdentity, chatLog, injected>>
  /\ UNCHANGED notRoom

\* RoomEvent.Disconnected on the Room object r
Disconnected(r) ==
  /\ rooms[r].state = "connected"
  /\ rooms' = [rooms EXCEPT ![r].state = "disconnected"]
  /\ livekitRoom' = Null
  /\ UNCHANGED <<room, localIdentity, calls, chatLog, injected>>
  /\ UNCHANGED notRoom

\* RoomEvent.DataReceived on the Room object r. payload.json is "invalid"
\* when JSON.parse or msg.type throws; participant is participant?.identity.
DataReceived(r, payload, participant) ==
  /\ rooms[r].state = "connected"
  /\ Len(chatLog) + Len(injected) < MaxChat
  /\ IF payload.json = "object" /\ payload.type = "room:chat"
        /\ participant # localIdentity
     THEN IF ~Falsy(payload.text) /\ startsWithText(payload.text, Marker)
          THEN /\ injected' = Append(injected,
                     [text |-> sliceFrom(payload.text, Len(Marker)),
                      sender |-> senderOf(payload, participant)])
               /\ UNCHANGED chatLog
          ELSE /\ chatLog' = appendState(chatLog,
                     [type |-> payload.type, text |-> payload.text,
                      sender |-> payload.sender])
               /\ UNCHANGED injected
     ELSE UNCHANGED <<chatLog, injected>>
  /\ UNCHANGED <<room, localIdentity, livekitRoom, rooms, calls>>
  /\ UNCHANGED notRoom

Chat(text, sender) ==
  [json |-> "object", type |-> "room:chat", text |-> text, sender |-> sender]

\* what a collaborator sends while this client joins and leaves rooms
RoomPayloads ==
  { Chat(<<"h", "i">>, <<"bob">>), Chat(Marker \o <<"h", "i">>, <<"bob">>) }

RoomInit ==
  /\ QueueIdle /\ StoreIdle /\ PanelIdle /\ SettingsIdle /\ RoomIdle /\ ModalIdle

RoomNext ==
  \/ \E roomName \in RoomNames \cup {""} : JoinClick(roomName)
  \/ \E j \in DOMAIN calls : \E outcome \in {"token", "error", "throws"} :
       TokenReply(j, outcome)
  \/ \E j \in DOMAIN calls : ImportDone(j)
  \/ \E j \in DOMAIN calls : \E ok \in BOOLEAN : ConnectDone(j, ok)
  \/ \E r \in DOMAIN rooms : Disconnected(r)
  \/ \E r \in DOMAIN rooms : \E payload \in RoomPayloads :
       DataReceived(r, payload, <<"bob">>)

RoomSpec == RoomInit /\ [][RoomNext]_vars

\* ------------------------------------- data messages on one joined room
Texts ==
  { Undefined, <<>>, <<"h", "i">>, Marker \o <<"h", "i">>, Marker,
    <<" ">> \o Marker \o <<"h", "i">> }

Payloads ==
  { [json |-> "invalid", type |-> "", text |-> Undefined, sender |-> Undefined] }
    \cup { [json |-> "object", type |-> t, text |-> x, sender |-> sdr] :
             t \in {"room:chat", "task:update"}, x \in Texts,
             sdr \in {Undefined, <<"bob">>} }

Participants == { Undefined, <<"bob">>, Identity(1), Identity(2) }

\* the state after one joinRoom("r1") that went through
Joined ==
  /\ room = 1
  /\ localIdentity = Identity(1)
  /\ livekitRoom = "r1"
  /\ rooms = <<[state |-> "connected", identity |-> Identity(1)]>>
  /\ calls = <<[pc |-> "done", roomName |-> "r1", identity |-> Identity(1), room |-> 1]>>
  /\ chatLog = <<>>
  /\ injected = <<>>

ChatInit ==
  /\ QueueIdle /\ StoreIdle /\ PanelIdle /\ SettingsIdle /\ ModalIdle /\ Joined

ChatNext ==
  \E payload \in Payloads : \E participant \in Participants :
    DataReceived(1, payload, participant)

ChatSpec == ChatInit /\ [][ChatNext]_vars

\* ------------------------------------------------ the settings modal
notModal == <<queueVars, storeVars, panelVars, settingsVars, roomVars>>

\* what GET /api/settings can answer for the form's fields: all set; no
\* secret, a model outside the options, a padded PORT from process.env;
\* nothing set
FetchedSettings ==
  { [k \in {FormKeys[i] : i \in DOMAIN FormKeys} |->
       IF k = "ANTHROPIC_API_KEY" THEN Stars \o <<"1", "2", "3", "4">>
       ELSE IF k = "CLAUDE_MODEL" THEN <<"claude-opus-4-6">>
       ELSE <<"3">>],
    [k \in {FormKeys[i] : i \in DOMAIN FormKeys} |->
       IF k = "ANTHROPIC_API_KEY" THEN <<>>
       ELSE IF k = "CLAUDE_MODEL" THEN <<"custom">>
       ELSE <<" ", "3">>],
    [k \in {FormKeys[i] : i \in DOMAIN FormKeys} |-> <<>>] }

\* what the user can put into an input
InputValues(key) ==
  IF fieldOf(key).type = "secret" THEN { <<>>, <<" ">>, <<"n", "e", "w">> }
  ELSE IF fieldOf(key).type = "select" THEN { Options[i] : i \in DOMAIN Options }
  ELSE { <<>>, <<"3">>, <<" ", "3">>, <<"4", " ">> }

NoModal(pc) == [pc |-> pc, settings |-> NoForm, inputs |-> NoForm]

\* the '.modal-overlay' elements in the document
Overlays == { j \in DOMAIN modals : modals[j].pc \in {"open", "saving"} }

\* click on settings-btn: openSettings up to its first await (the fetch)
ClickSettings ==
  /\ Len(modals) < MaxClicks
  /\ IF Overlays # {} THEN UNCHANGED modals
     ELSE modals' = Append(modals, NoModal("fetch"))
  /\ UNCHANGED requests
  /\ UNCHANGED notModal

\* the fetch of /api/settings resolves: the overlay is built and appended
FetchDone(j, settings) ==
  /\ modals[j].pc = "fetch"
  /\ modals' = [modals EXCEPT ![j] =
                  [pc |-> "open", settings |-> settings, inputs |-> rendered(settings)]]
  /\ UNCHANGED requests
  /\ UNCHANGED notModal

\* the fetch or res.json() rejects: openSettings ends without an overlay
FetchFailed(j) ==
  /\ modals[j].pc = "fetch"
  /\ modals' = [modals EXCEPT ![j] = NoModal("failed")]
  /\ UNCHANGED requests
  /\ UNCHANGED notModal

\* the user changes one input of overlay j
Edit(j, key, value) ==
  /\ modals[j].pc = "open"
  /\ modals' = [modals EXCEPT ![j].inputs[key] = value]
  /\ UNCHANGED requests
  /\ UNCHANGED notModal

\* Cancel button or a click on the backdrop of overlay j: close()
Cancel(j) ==
  /\ j \in Overlays
  /\ modals' = [modals EXCEPT ![j] = NoModal("closed")]
  /\ UNCHANGED requests
  /\ UNCHANGED notModal

\* Escape: the onEscape listener of every overlay closes its overlay
Escape ==
  /\ Overlays # {}
  /\ modals' = [j \in DOMAIN modals |->
                  IF j \in Overlays THEN NoModal("closed") ELSE modals[j]]
  /\ UNCHANGED requests
  /\ UNCHANGED notModal

\* submit of overlay j's form, up to the await of the POST
Submit(j) ==
  /\ modals[j].pc = "open"
  /\ Len(requests) < MaxClicks
  /\ LET updates == collectUpdates(modals[j].settings, modals[j].inputs)
     IN IF Len(updates) = 0
        THEN /\ modals' = [modals EXCEPT ![j] = NoModal("closed")]
             /\ UNCHANGED requests
        ELSE /\ modals' = [modals EXCEPT ![j].pc = "saving"]
             /\ requests' = Append(requests, updates)
  /\ UNCHANGED notModal

\* the POST settles: close() when it resolved; the overlay stays when it rejected
SaveDone(j, ok) ==
  /\ modals[j].pc = "saving"
  /\ modals' = IF ok THEN [modals EXCEPT ![j] = NoModal("closed")]
               ELSE [modals EXCEPT ![j].pc = "open"]
  /\ UNCHANGED requests
  /\ UNCHANGED notModal

ModalInit ==
  /\ QueueIdle /\ StoreIdle /\ PanelIdle /\ SettingsIdle /\ RoomIdle /\ ModalIdle

ModalNext ==
  \/ ClickSettings
  \/ \E j \in DOMAIN modals : \E settings \in FetchedSettings : FetchDone(j, settings)
  \/ \E j \in DOMAIN modals : FetchFailed(j)
  \/ \E j \in DOMAIN modals : Cancel(j)
  \/ Escape
  \/ \E j \in DOMAIN modals : Submit(j)
  \/ \E j \in DOMAIN modals : \E ok \in BOOLEAN : SaveDone(j, ok)

ModalSpec == ModalInit /\ [][ModalNext]_vars

\* -------------------------------------------- the form of one open modal
\* the state after one openSettings whose fetch resolved
Opened ==
  /\ \E settings \in FetchedSettings :
       modals = <<[pc |-> "open", settings |-> settings, inputs |-> rendered(settings)]>>
  /\ requests = <<>>

FormInit ==
  /\ QueueIdle /\ StoreIdle /\ PanelIdle /\ SettingsIdle /\ RoomIdle /\ Opened

FormNext ==
  \/ \E i \in DOMAIN FormKeys : \E value \in InputValues(FormKeys[i]) :
       Edit(1, FormKeys[i], value)
  \/ Submit(1)
  \/ \E ok \in BOOLEAN : SaveDone(1, ok)
  \/ Cancel(1)

FormSpec == FormInit /\ [][FormNext]_vars

\* ================================================================ claims
Outcome(rec) ==
  IF rec.status \in {"approved", "done"} THEN <<"approved", rec.resolvedBy>>
  ELSE IF rec.status = "rejected" THEN <<"rejected", rec.resolvedBy>>
  ELSE <<"none", Null>>

CacheStatus(c, id) == find(tasks[c], id).status

Edge(a, b) ==
  <<a, b>> \in {<<"pending", "approved">>, <<"pending", "rejected">>,
                <<"approved", "done">>}

\* ------------------------------------------------------------------- C1
NoLosingDecision ==
  \A c \in Clients : \A i \in DOMAIN tasks[c] :
    Outcome(tasks[c][i])[1] # "none" =>
      /\ tasks[c][i].id \in DOMAIN store
      /\ Outcome(tasks[c][i]) = Outcome(store[tasks[c][i].id])

CaughtUp ==
  \A c \in connected : inbox[c] = <<>> => tasks[c] = store

OneDecision ==
  \A id \in DOMAIN store :
    store[id].status # "pending" => Outcome(store'[id]) = Outcome(store[id])

\* C1: of two clients' different decisions for a pending task exactly one is
\* recorded, the first to reach the store; no client's cache ever holds the other
\* one, a connected client that has received every event pushed to it holds the
\* store's record, and every client that stays connected comes to hold the
\* recorded outcome.
C1_RaceConverges ==
  /\ [](NoLosingDecision /\ CaughtUp)
  /\ [][OneDecision]_vars
  /\ \A c \in Clients :
       (Outcome(find(store, 1))[1] # "none" /\ c \in connected)
         ~> (c \notin connected \/ Outcome(find(tasks[c], 1)) = Outcome(find(store, 1)))

C1_Witness ==
  /\ lostRace # {}
  /\ connected = Clients
  /\ \A c \in Clients : inbox[c] = <<>> /\ reqs[c] = <<>>
  /\ \A c \in Clients : \A id \in lostRace :
       /\ store[id].status \in {"approved", "rejected"}
       /\ find(tasks[c], id) = store[id]

\* ------------------------------------------------------------------- C2
StoreFollowsEdges ==
  \A id \in DOMAIN store :
    /\ id \in DOMAIN store'
    /\ store'[id].status # store[id].status => Edge(store[id].status, store'[id].status)
    /\ store[id].resolvedBy # Null => store'[id].resolvedBy = store[id].resolvedBy
    /\ store'[id].resolvedBy # store[id].resolvedBy => store[id].status = "pending"

CacheFollowsEdges ==
  \A c \in Clients : \A id \in DOMAIN store :
    (CacheStatus(c, id) # "none" /\ CacheStatus(c, id)' # CacheStatus(c, id))
      => Edge(CacheStatus(c, id), CacheStatus(c, id)')

CacheNeverBackwards ==
  \A c \in Clients : \A id \in DOMAIN store :
    /\ (CacheStatus(c, id) # "none" /\ CacheStatus(c, id)' # CacheStatus(c, id))
         => \/ Edge(CacheStatus(c, id), CacheStatus(c, id)')
            \/ (CacheStatus(c, id) = "pending" /\ CacheStatus(c, id)' = "done")
    /\ find(tasks[c], id).resolvedBy # Null
         => find(tasks[c], id)'.resolvedBy = find(tasks[c], id).resolvedBy

\* C2 as claimed: in the store and in every client cache a task's status moves
\* only along pending -> approved -> done or pending -> rejected, one edge at a time.
C2_EdgesEverywhere == [][StoreFollowsEdges /\ CacheFollowsEdges]_vars

\* C2 as amended: the store moves one edge at a time and records at most one
\* resolvedBy; a client cache never moves backwards and never changes a recorded
\* resolvedBy, but may go from pending directly to done.
C2_StoreEdgesCacheForward == [][StoreFollowsEdges /\ CacheNeverBackwards]_vars

C2_Witness ==
  /\ store # <<>>
  /\ store[1].status = "done"
  /\ \E c \in Clients : c \in connected /\ inbox[c] = <<>> /\ CacheStatus(c, 1) = "done"
  /\ \E c \in Clients : c \notin connected /\ CacheStatus(c, 1) = "pending"

\* ------------------------------------------------------------------- C3
\* C3: resolveTask on a task that is not pending leaves the record unchanged and
\* returns it tagged AlreadyResolved, whatever the decision and the client.
C3_AlreadyResolved ==
  (result.op = "resolveTask" /\ result.before.status \in {"approved", "rejected", "done"})
    => /\ result.tag = "AlreadyResolved"
       /\ result.task = result.before
       /\ store[result.id] = result.before

C3_Witness ==
  /\ result.op = "resolveTask"
  /\ result.tag = "AlreadyResolved"
  /\ result.before.status = "rejected"
  /\ result.before.resolvedBy = "B"

\* ------------------------------------------------------------------- C4
\* C4: the panel's 'tasks' holds one record per id received, in order of first
\* receipt, and each is the task of the last event received for its id.
C4_OneRecordPerId ==
  /\ Len(panelTasks) = Len(firstSeen)
  /\ \A i \in DOMAIN panelTasks :
       /\ panelTasks[i].id = firstSeen[i]
       /\ panelTasks[i] = lastFor[firstSeen[i]]

C4_Witness ==
  /\ Len(panelTasks) = 2
  /\ lastMsg.task.id = firstSeen[1]
  /\ ~wasNew
  /\ panelTasks[1].status = "approved"
  /\ panelTasks[2].status = "pending"

\* ------------------------------------------------------------------- C5
\* C5: receiving the same 'task:update' event twice in a row leaves 'tasks' as
\* receiving it once does, for a known id and for an id not yet in 'tasks'.
C5_Idempotent ==
  /\ twice => panelTasks = once
  /\ \A msg \in Events :
       handleTaskUpdate(handleTaskUpdate(panelTasks, msg), msg)
         = handleTaskUpdate(panelTasks, msg)

C5_Witness == twice /\ wasNew /\ Len(panelTasks) = 2

\* ------------------------------------------------------------------- C6
ClickOnlySends ==
  \A c \in Clients :
    Len(reqs'[c]) > Len(reqs[c]) =>
      /\ tasks' = tasks
      /\ store' = store
      /\ \E id \in DOMAIN store :
           /\ find(tasks[c], id) # NoTask
           /\ reqs'[c] \in { Append(reqs[c], [type |-> t, taskId |-> id]) :
                               t \in {"task:approve", "task:reject"} }

ReceivedUpdateFor(c, id) ==
  /\ inbox[c] # <<>>
  /\ inbox'[c] = Tail(inbox[c])
  /\ Head(inbox[c]).type = "task:update"
  /\ Head(inbox[c]).task.id = id

ReceivedSnapshot(c) ==
  /\ inbox[c] # <<>>
  /\ inbox'[c] = Tail(inbox[c])
  /\ Head(inbox[c]).type = "snapshot"

StatusChanged(c, id) ==
  CacheStatus(c, id) # "none" /\ CacheStatus(c, id)' # CacheStatus(c, id)

\* C6 as claimed: a click only sends; the cached status of a task changes only on
\* receipt of a 'task:update' event for that task.
C6_OnlyTaskUpdate ==
  [][/\ ClickOnlySends
     /\ \A c \in Clients : \A id \in DOMAIN store :
          StatusChanged(c, id) => ReceivedUpdateFor(c, id)]_vars

\* C6 as amended: a click only sends; the cached status of a task changes only on
\* receipt of a 'task:update' event for that task or of a connection snapshot.
C6_OnlyChannelEvents ==
  [][/\ ClickOnlySends
     /\ \A c \in Clients : \A id \in DOMAIN store :
          StatusChanged(c, id) => ReceivedUpdateFor(c, id) \/ ReceivedSnapshot(c)]_vars

C6_Witness ==
  \E c \in Clients :
    /\ reqs[c] # <<>>
    /\ Head(reqs[c]).type = "task:reject"
    /\ CacheStatus(c, Head(reqs[c]).taskId) = "pending"
    /\ store[Head(reqs[c]).taskId].status = "pending"

\* ------------------------------------------------------------------- C7
\* C7: the snapshot sent on connect is the store's task list and room log at that
\* point, and once applied the client's cache equals it, whatever it held before.
C7_SnapshotIsStore ==
  \A c \in Clients :
    snapshotOf[c] # NoSnapshot =>
      IF inbox[c] # <<>> /\ Head(inbox[c]).type = "snapshot"
      THEN /\ Head(inbox[c]).tasks = snapshotOf[c].tasks
           /\ Head(inbox[c]).roomMessages = snapshotOf[c].roomMessages
      ELSE /\ tasks[c] = snapshotOf[c].tasks
           /\ roomMessages[c] = snapshotOf[c].roomMessages

C7_Witness ==
  \E c \in Clients :
    /\ snapshotOf[c] # NoSnapshot
    /\ inbox[c] = <<>>
    /\ tasks[c] # <<>>
    /\ tasks[c][1].status = "done"
    /\ roomMessages[c] # <<>>
    /\ tasks[c] = store

\* ------------------------------------------------------------------- C8
\* C8: markDone on a pending or rejected task fails with InvalidTransition and
\* leaves the record unchanged; it succeeds only from approved.
C8_MarkDoneOnlyFromApproved ==
  /\ (result.op = "markDone" /\ result.before.status \in {"pending", "rejected"})
       => /\ result.tag = "InvalidTransition"
          /\ result.task = result.before
          /\ store[result.id] = result.before
  /\ (result.op = "markDone" /\ result.tag = "ok")
       => /\ result.before.status = "approved"
          /\ store[result.id] = [result.before EXCEPT !.status = "done"]

C8_Witness ==
  /\ result.op = "markDone"
  /\ result.tag = "InvalidTransition"
  /\ result.before.status = "rejected"
  /\ \E id \in DOMAIN store : store[id].status = "done"

\* the value GET masks for a secret key: values[k] || process.env[k] || ''
Stored(key) ==
  LET inFile == lookup(parseEnvValues(readEnvFile(envFile)), <<key>>)
  IN IF ~Falsy(inFile) THEN inFile
     ELSE IF ~Falsy(procEnv[key]) THEN procEnv[key]
     ELSE <<>>

\* suffixes of s that are at most n characters long and not the whole of s
ProperSuffixes(s, n) ==
  { SubSeq(s, i, Len(s)) : i \in { j \in 2..(Len(s) + 1) : Len(s) + 1 - j <= n } }

\* C9: for every secret field GET returns an unset secret as the empty string
\* and a stored secret as '****' followed by a suffix of at most 4 characters
\* that is never the whole stored secret.
C9_SecretsMasked ==
  response.kind = "get" =>
    \A i \in DOMAIN response.settings :
      LET f == response.settings[i]
      IN f.type = "secret" =>
           IF Stored(f.key) = <<>> THEN f.value = <<>>
           ELSE \E suffix \in ProperSuffixes(Stored(f.key), 4) :
                  f.value = Stars \o suffix

EnvEntry(file, key) == lookup(parseEnvValues(readEnvFile(file)), <<key>>)

\* C10: no step of the route gives a key outside the allow-list a new or a
\* changed entry in the .env file or in process.env, and GET returns fields
\* for allowed keys only.
C10_OnlyAllowedKeysWritten ==
  [][ /\ \A k \in EnvKeys \ ALLOWED_KEYS :
           /\ EnvEntry(envFile', k) = EnvEntry(envFile, k)
           /\ procEnv'[k] = procEnv[k]
      /\ response'.kind = "get" =>
           \A i \in DOMAIN response'.settings :
             response'.settings[i].key \in ALLOWED_KEYS ]_vars

\* an entry of a body that POST accepts: allowed key, string value
Accepted(e) == e.key \in ALLOWED_KEYS /\ e.value # NotAString

\* the value a GET response reports for key
Reported(resp, key) ==
  resp.settings[CHOOSE i \in DOMAIN resp.settings : resp.settings[i].key = key].value

\* C11: the GET that follows a POST reports, for every accepted entry (k, v)
\* of the body, '****' and the last 4 characters of v when k is a secret
\* ('****' alone is also taken for a v shorter than 4, and '' for an empty
\* v) and v itself when k is a text or select field, whatever .env and
\* process.env held before.
C11_GetReportsPosted ==
  [][ (response.kind = "post" /\ response'.kind = "get") =>
        \A i \in DOMAIN posted :
          Accepted(posted[i]) =>
            LET k == posted[i].key
                v == posted[i].value
            IN IF fieldOf(k).type = "secret"
               THEN \/ Reported(response', k) = Stars \o sliceLast(v, 4)
                    \/ Len(v) < 4 /\ Reported(response', k) = Stars
                    \/ v = <<>> /\ Reported(response', k) = <<>>
               ELSE Reported(response', k) = v ]_vars

\* C12: POST answers restartNeeded: true exactly when the body holds an
\* accepted entry (allowed key, string value) for PORT, the one key whose
\* schema entry has restart: true; the answer is a 200.
C12_RestartNeededIffPort ==
  response.kind = "post" =>
    /\ response.restartNeeded =
         (\E i \in DOMAIN posted : Accepted(posted[i]) /\ posted[i].key = "PORT")
    /\ response.status = 200

C12_Witness ==
  /\ response.kind = "post"
  /\ response.restartNeeded
  /\ Len(posted) = 2
  /\ \E i \in DOMAIN posted : posted[i].key = "PORT" /\ Accepted(posted[i])
  /\ \E i \in DOMAIN posted : posted[i].key # "PORT" /\ Accepted(posted[i])

\* what the claim has the DataReceived handler do with a message
IsChat(payload) == payload.json = "object" /\ payload.type = "room:chat"

HasMarker(payload) ==
  /\ payload.text # Undefined
  /\ Len(payload.text) >= 8
  /\ SubSeq(payload.text, 1, 8) = <<"c", "o", "g", "n", "a", "t", "e", ":">>

\* C13: a 'room:chat' message from a participant other than the local
\* identity goes to injectCognateMessage with 'cognate:' stripped, and not
\* into 'roomMessages', when its text starts with 'cognate:', and onto the
\* end of 'roomMessages' otherwise; a message from the local identity or of
\* another type does neither; entries of 'roomMessages' never change.
C13_MarkerRoutes ==
  [][ \A payload \in Payloads : \A participant \in Participants :
        DataReceived(1, payload, participant) =>
          /\ SubSeq(chatLog', 1, Len(chatLog)) = chatLog
          /\ SubSeq(injected', 1, Len(injected)) = injected
          /\ IF IsChat(payload) /\ participant # localIdentity
             THEN IF HasMarker(payload)
                  THEN /\ chatLog' = chatLog
                       /\ Len(injected') = Len(injected) + 1
                       /\ injected'[Len(injected')].text =
                            SubSeq(payload.text, 9, Len(payload.text))
                  ELSE /\ injected' = injected
                       /\ Len(chatLog') = Len(chatLog) + 1
                       /\ chatLog'[Len(chatLog')].text = payload.text
                       /\ chatLog'[Len(chatLog')].sender = payload.sender
             ELSE chatLog' = chatLog /\ injected' = injected ]_vars

C13_Witness ==
  /\ Len(chatLog) = 1
  /\ chatLog[1].text = <<" ">> \o Marker \o <<"h", "i">>
  /\ Len(injected) = 1
  /\ injected[1].text = <<"h", "i">>

Live == { r \in DOMAIN rooms : rooms[r].state = "connected" }

Settled == \A j \in DOMAIN calls : calls[j].pc = "done"

\* C19: once every joinRoom call has run to its end, 'livekitRoom' is
\* non-null exactly when the Room held in 'room' is connected, and at most
\* one Room is connected and delivering events.
C19_OneLiveRoom ==
  Settled =>
    /\ (livekitRoom # Null) <=> (room # 0 /\ room \in Live)
    /\ Cardinality(Live) <= 1

\* C14: a POST that carries the empty string for a secret key leaves that
\* key's entry in the .env file and in process.env as it was.
C14_EmptySecretSkipped ==
  [][ response'.kind = "post" =>
        \A i \in DOMAIN posted' :
          LET k == posted'[i].key
          IN (k \in ALLOWED_KEYS /\ fieldOf(k).type = "secret" /\ posted'[i].value = <<>>)
               => /\ EnvEntry(envFile', k) = EnvEntry(envFile, k)
                  /\ procEnv'[k] = procEnv[k] ]_vars

\* the lines of a file: what '\n' ends or separates
LinesOf(content) ==
  LET segs == split(content)
  IN IF segs[Len(segs)] = <<>> THEN SubSeq(segs, 1, Len(segs) - 1) ELSE segs

\* the key a line names; Undefined for a blank line, a comment, a line without '='
NamedKey(line) ==
  LET t == trim(line)
  IN IF t = <<>> \/ t[1] = "#" \/ indexOf(t, "=") = 0 THEN Undefined
     ELSE trim(SubSeq(t, 1, indexOf(t, "=") - 1))

\* for the lines `old` naming the keys `names`: each line kept or rewritten
\* in place as key=value, joined again
KeptLines(old, names, updates) ==
  join([i \in DOMAIN old |->
          IF \E j \in DOMAIN updates : <<updates[j].key>> = names[i]
          THEN LET j == CHOOSE j \in DOMAIN updates : <<updates[j].key>> = names[i]
               IN names[i] \o <<"=">> \o updates[j].value
          ELSE old[i]])

\* the lines of the keys of updates that no existing line names, joined
NewLines(names, updates) ==
  LET fresh == SelectSeq(updates,
                 LAMBDA e : \A i \in DOMAIN names : names[i] # <<e.key>>)
  IN join([i \in DOMAIN fresh |-> <<fresh[i].key>> \o <<"=">> \o fresh[i].value])

\* the file after is: the kept lines, one or more line breaks, the new lines
AppendedAfter(kept, new, after) ==
  /\ Len(after) >= Len(kept) + Len(new) + 2
  /\ SubSeq(after, 1, Len(kept)) = kept
  /\ SubSeq(after, Len(after) - Len(new), Len(after)) = new \o <<"\n">>
  /\ \A i \in (Len(kept) + 1)..(Len(after) - Len(new) - 1) : after[i] = "\n"

\* the file after updateEnvFile(updates) on `content`; `trailing` says what
\* becomes of the kept lines when no line is new
LinesKept(content, updates, after, trailing(_)) ==
  LET old == LinesOf(content)
      names == [i \in DOMAIN old |-> NamedKey(old[i])]
      kept == KeptLines(old, names, updates)
      new == NewLines(names, updates)
  IN IF new = <<>> THEN after = trailing(kept) \o <<"\n">>
     ELSE AppendedAfter(kept, new, after)

AsIs(text) == text

Written == filterUpdates(posted')

\* C15 as stated: every existing line is kept where it was, unchanged or
\* rewritten in place as key=value, and new keys follow all existing lines.
C15_AllLinesKept ==
  [][ (response'.kind = "post" /\ Len(Written) > 0) =>
        LinesKept(readEnvFile(envFile), Written, envFile', AsIs) ]_vars

\* C15: every existing line is kept where it was, unchanged or rewritten in
\* place as key=value, and new keys follow all existing lines; when no key is
\* new, blank lines at the end of the file are dropped, so that the file ends
\* in one line break.
C15_LinesKeptButTrailingBlank ==
  [][ (response'.kind = "post" /\ Len(Written) > 0) =>
        LinesKept(readEnvFile(envFile), Written, envFile', stripNewlines) ]_vars

C15_Witness ==
  /\ response.kind = "post"
  /\ Len(posted) = 2
  /\ envFile = <<"#", " ", "k", "\n", "ANTHROPIC_API_KEY", "=", "s", "k", "-", "1", "2",
                 "\n", "\n", "PORT", "=", "3", "\n">>

\* C18: a POST of the body just posted leaves the .env file as the first
\* POST left it: updateEnvFile applied twice is updateEnvFile applied once.
C18_Idempotent ==
  [][ (response.kind = "post" /\ response'.kind = "post" /\ posted' = posted)
        => envFile' = envFile ]_vars

\* C16: at most one '.modal-overlay' element is in the document at any time.
C16_OneOverlay == Cardinality(Overlays) <= 1

\* the fields of modal m the claim has the POST body hold
Changed(m, key) ==
  IF fieldOf(key).type = "secret" THEN trim(m.inputs[key]) # <<>>
  ELSE trim(m.inputs[key]) # m.settings[key]

ChangedKeys(m) == SelectSeq(FormKeys, LAMBDA k : Changed(m, k))

\* C17: on save the POST body holds a secret key only when something but
\* blanks was typed, a text or select key only when its trimmed input is not
\* the value fetched, each with the trimmed input; when no field qualifies
\* no POST is made and the modal is closed.
C17_OnlyChangedSent ==
  [][ Submit(1) =>
        LET m == modals[1]
            keys == ChangedKeys(m)
        IN IF keys = <<>>
           THEN requests' = requests /\ 1 \notin Overlays'
           ELSE /\ Len(requests') = Len(requests) + 1
                /\ LET body == requests'[Len(requests')]
                   IN /\ Len(body) = Len(keys)
                      /\ \A i \in DOMAIN keys :
                           /\ body[i].key = keys[i]
                           /\ body[i].value = trim(m.inputs[keys[i]]) ]_vars

C17_Witness ==
  /\ Len(requests) = 1
  /\ Len(requests[1]) = 1
  /\ requests[1][1] = [key |-> "PORT", value |-> <<"4">>]
  /\ modals[1].pc = "saving"
  /\ modals[1].inputs["ANTHROPIC_API_KEY"] = <<" ">>

====
